---- MODULE Spec2Model ----
(***************************************************************************)
(* The notebook "Introduction to PyMC" as a state machine: a session that  *)
(* executes the notebook's code cells top to bottom, the variables the     *)
(* cells declare, the three MCMC models built from them, and the sampler   *)
(* loop behind every call of sample.                                       *)
(*                                                                         *)
(* Continuous values (early_mean, late_mean, beta0, beta1) are written in  *)
(* tenths: 1 stands for 0.1 and 10 for 1.0.  Iteration counts are scaled   *)
(* down (the source's values are given beside each bound).                 *)
(***************************************************************************)
EXTENDS Integers, Sequences, FiniteSets, TLC

VARIABLES pc, env, nameError, objs, value, arr, mstatus, run, db, trace,
          forced, out, requests, app

vars == <<pc, env, nameError, objs, value, arr, mstatus, run, db, trace,
          forced, out, requests, app>>

sessionVars == <<pc, env, nameError, objs, value, arr, mstatus, run, db, trace,
                 forced, out, requests>>

(***************************************************************************)
(* Bounds of the model.                                                    *)
(***************************************************************************)
\* iter of the survival fit (10000 in the source, line 85)
SurvIter == 4
\* burn of the survival fit (5000 in the source, line 85): half of SurvIter
SurvBurn == 2
\* iter of the disaster fit (10000 in the source, line 682)
DisIter == 3
\* burn of the disaster fit (1000 in the source, line 682)
DisBurn == 1
\* start of the trace slice (1000 in the source, line 704)
SliceStart == 1
\* iter of the missing-data fit (5000 in the source, line 963)
MissIter == 2
\* how far outside 0..switchpoint_upper the rate function's inputs range
SMargin == 2

(***************************************************************************)
(* Program constants.                                                      *)
(***************************************************************************)
switchpoint_lower == 0
switchpoint_upper == 110
proposal_sd == 2
\* the placeholder None of the array x, as a value no count can take
None == -1
\* sample(iter, burn=0, thin=1): the arguments a call leaves out
DefaultBurn == 0
DefaultThin == 1

\* x, the disaster counts with two years missing
x ==
    << 4, 5, 4, 0, 1, 4, 3, 4, 0, 6, 3, 3, 4, 0, 2, 6,
       3, 3, 5, 4, 5, 3, 1, 4, 4, 1, 5, 5, 3, 4, 2, 5,
       2, 2, 3, 4, 2, 1, 3, None, 2, 1, 1, 1, 1, 3, 0, 0,
       1, 0, 1, 1, 0, 0, 3, 1, 0, 3, 2, 2, 0, 1, 1, 1,
       0, 1, 0, 1, 0, 0, 0, 2, 1, 0, 0, 0, 1, 1, 0, 2,
       3, 3, 1, None, 2, 1, 1, 1, 1, 2, 4, 2, 0, 0, 1, 4,
       0, 0, 0, 1, 0, 0, 0, 0, 0, 1, 0, 0, 1, 0, 1 >>

\* disasters_array, imported from pymc.examples.disaster_model: the complete
\* series, of which x is the copy with two years replaced by None
disasters_array ==
    [i \in 1..Len(x) |-> IF i = 40 THEN 2 ELSE IF i = 84 THEN 1 ELSE x[i]]

(***************************************************************************)
(* Values the sampler and the random initialisation draw from.             *)
(***************************************************************************)
\* DiscreteUniform(lower=0, upper=110)
SwitchSupport == {switchpoint_lower, switchpoint_upper}
\* Exponential(beta=1), in tenths
MeanSupport == {1, 10}
\* Normal(mu=0, tau=0.0001), in tenths
BetaSupport == {0, 10}
\* Poisson counts of a missing year
CountSupport == {0, 1}
\* what np.empty may leave in the memory it returns
Garbage == {0, 7}

(***************************************************************************)
(* Python slicing and the function rate.                                   *)
(***************************************************************************)
Max(a, b) == IF a >= b THEN a ELSE b
Min(a, b) == IF a <= b THEN a ELSE b

\* a slice bound k of a sequence of length n, as Python normalises it
PyIndex(k, n) == IF k < 0 THEN Max(k + n, 0) ELSE Min(k, n)

\* np.empty(n): n elements of whatever the memory held
np_empty(n, g) == [i \in 1..n |-> g]

\* a[start:stop] = v (start, stop already normalised; a[i] is index i-1)
SliceAssign(a, start, stop, v) ==
    [i \in 1..Len(a) |-> IF start < i /\ i <= stop THEN v ELSE a[i]]

\* a[start:]
SliceFrom(a, start) == SubSeq(a, PyIndex(start, Len(a)) + 1, Len(a))

\* rate with its two slices cut one element too far
rate_offbyone(s, e, l, g) ==
    LET n == Len(disasters_array)
        out0 == np_empty(n, g)
        out1 == SliceAssign(out0, 0, PyIndex(s + 1, n), e)
    IN  SliceAssign(out1, PyIndex(s + 1, n), n, l)

\* rate(s, e, l); g is the content of the uninitialised array
rate(s, e, l, g) ==
    LET n == Len(disasters_array)
        out0 == np_empty(n, g)
        out1 == SliceAssign(out0, 0, PyIndex(s, n), e)
    IN  SliceAssign(out1, PyIndex(s, n), n, l)

\* masked_values that masks no element
masked_values_nothing(a, v) == {}

\* np.ma.masked_values(a, value): the positions of a that equal value
masked_values(a, v) == {i \in 1..Len(a) : a[i] = v}

(***************************************************************************)
(* The objects the cells create.                                           *)
(***************************************************************************)
ModelIds == {"M_surv", "M_dis", "M_missing"}
NoRun ==
    [model |-> "none", iter |-> 0, burn |-> 0, thin |-> 1, i |-> 0, todo |-> {}]

\* the variables handed to each MCMC object
ModelVars(m) ==
    CASE m = "M_surv" -> {"sv_beta0", "sv_beta1", "sv_lam", "sv_survival"}
      [] m = "M_dis" -> {"dm_switchpoint", "dm_early_mean", "dm_late_mean",
                         "dm_rate", "dm_disasters"}
      [] m = "M_missing" -> {"mm_switch", "mm_early_mean", "mm_late_mean",
                             "mm_rate", "mm_disasters"}
      [] OTHER -> {}

\* the value a declaration of the notebook passes (value=...), or None when
\* it passes none; the declarations of the module disaster_model are not in
\* the notebook, so no value is known for them
DeclaredValue(o) ==
    CASE o \in {"sv_beta0", "sv_beta1"} -> 0
      [] o = "nb_switchpoint" -> 50
      [] o = "nb_early_mean" -> 1
      [] o = "nb_late_mean" -> 10
      [] OTHER -> None

\* the values the distribution of a scalar stochastic can take
Support(o) ==
    CASE o \in {"sv_beta0", "sv_beta1"} -> BetaSupport
      [] o \in {"nb_switchpoint", "dm_switchpoint", "mm_switch"} -> SwitchSupport
      [] OTHER -> MeanSupport

\* the values a stochastic can hold when it is created
InitValues(o) ==
    IF DeclaredValue(o) = None THEN Support(o) ELSE {DeclaredValue(o)}

\* the parents of each deterministic rate: s, e, l
RateParents(r) ==
    CASE r = "nb_rate" -> [s |-> "nb_switchpoint", e |-> "nb_early_mean",
                           l |-> "nb_late_mean"]
      [] r = "dm_rate" -> [s |-> "dm_switchpoint", e |-> "dm_early_mean",
                           l |-> "dm_late_mean"]
      [] r = "mm_rate" -> [s |-> "mm_switch", e |-> "mm_early_mean",
                           l |-> "mm_late_mean"]
Rates == {"nb_rate", "dm_rate", "mm_rate"}

\* the array a data stochastic is created with (value=...)
DataOf(o) ==
    IF o \in {"nb_disasters", "dm_disasters"} THEN disasters_array ELSE x

\* the elements of a data stochastic that are not observed
MaskOfArray == masked_values(disasters_array, None)
MaskOfX == masked_values(x, None)
Missing(o) ==
    IF o \in {"nb_disasters", "dm_disasters"} THEN MaskOfArray ELSE MaskOfX
DataVars == {"nb_disasters", "dm_disasters", "nb_disasters2", "mm_disasters"}

\* the variable of each model whose trace the notebook reads by value
Traced(m) == IF m = "M_dis" THEN "dm_early_mean" ELSE "none"

\* the value of a rate, computed from what its parents hold in val
RateValue(r, val, g) ==
    rate(val[RateParents(r).s], val[RateParents(r).e], val[RateParents(r).l], g)

\* the sum of the elements of a at the positions in S
RECURSIVE SumOver(_, _)
SumOver(a, S) ==
    IF S = {} THEN 0
    ELSE LET lo == CHOOSE j \in S : \A k \in S : j <= k
             hi == CHOOSE j \in S : \A k \in S : k <= j
             mid == (lo + hi) \div 2
         IN  IF lo = hi THEN a[lo]
             ELSE SumOver(a, {j \in S : j <= mid}) + SumOver(a, {j \in S : j > mid})

\* the mean of the observed elements of x (its whole part)
MeanOfX == SumOver(x, DOMAIN x \ MaskOfX) \div Cardinality(DOMAIN x \ MaskOfX)

\* the value a data stochastic is created with: its data, the missing
\* elements filled with the mean of the observed ones
Filled(o) ==
    [i \in 1..Len(DataOf(o)) |-> IF i \in Missing(o) THEN MeanOfX ELSE DataOf(o)[i]]

(***************************************************************************)
(* The code cells.  A statement names its cell, its line in the notebook,  *)
(* the operation it performs, the global names it reads in the order it    *)
(* evaluates them, the names it binds (with what each then denotes) and    *)
(* the operation's arguments.                                              *)
(***************************************************************************)
St(cell, line, op, reads, binds, a) ==
    [cell |-> cell, line |-> line, op |-> op, reads |-> reads, binds |-> binds,
     a |-> a]
Lib(names) == [n \in names |-> "lib"]
Data(names) == [n \in names |-> "data"]
NoBind == Lib({})
NoArg == [name |-> "none"]
Obj(o) == [obj |-> o]
Attr(n, at) == [name |-> n, attr |-> at]

Cell01 ==
    << St(1, 45, "import", <<>>, Lib({"sns"}), NoArg),
       St(1, 46, "import", <<>>,
          Lib({"Normal", "Lambda", "observed", "MCMC", "Matplot", "Uniform"}), NoArg),
       St(1, 47, "import", <<>>, Lib({"data"}), NoArg),
       St(1, 48, "import", <<>>, Lib({"np"}), NoArg),
       St(1, 51, "bind", <<"data">>, Data({"failure"}), NoArg),
       St(1, 54, "stochastic", <<"Normal">>, "beta0" :> "sv_beta0", Obj("sv_beta0")),
       St(1, 56, "stochastic", <<"Normal">>, "beta1" :> "sv_beta1", Obj("sv_beta1")),
       St(1, 59, "deterministic", <<"Lambda", "beta0", "beta1", "data", "np">>,
          "lam" :> "sv_lam", Obj("sv_lam")),
       St(1, 61, "observed", <<"observed", "data", "lam", "failure", "np">>,
          "survival" :> "sv_survival", Obj("sv_survival")) >>
Cell02 ==
    << St(2, 84, "mcmc", <<"MCMC", "beta0", "beta1", "lam", "survival">>,
          "M" :> "M_surv", [model |-> "M_surv"]),
       St(2, 85, "sample", <<"M">>, NoBind,
          [name |-> "M", iter |-> SurvIter, burn |-> SurvBurn, thin |-> DefaultThin]) >>
Cell03 ==
    << St(3, 96, "results", <<"Matplot", "beta1">>, NoBind, Attr("beta1", "plot")) >>
Cell04 ==
    << St(4, 116, "import_disaster_model", <<>>, Lib({"disasters_array"}), NoArg),
       St(4, 117, "import", <<>>, Lib({"plt"}), NoArg),
       St(4, 119, "bind", <<"disasters_array">>, Data({"n_count_data"}), NoArg),
       St(4, 121, "inspect", <<"plt", "np", "disasters_array">>, NoBind,
          Attr("disasters_array", "bar")) >>
Cell05 ==
    << St(5, 190, "import", <<>>,
          Lib({"DiscreteUniform", "Exponential", "Poisson", "deterministic"}), NoArg),
       St(5, 192, "stochastic", <<"DiscreteUniform">>,
          "switchpoint" :> "nb_switchpoint", Obj("nb_switchpoint")) >>
Cell06 ==
    << St(6, 217, "stochastic", <<"Exponential">>,
          "early_mean" :> "nb_early_mean", Obj("nb_early_mean")),
       St(6, 218, "stochastic", <<"Exponential">>,
          "late_mean" :> "nb_late_mean", Obj("nb_late_mean")) >>
Cell07 ==
    << St(7, 240, "deterministic",
          <<"deterministic", "switchpoint", "early_mean", "late_mean", "np",
            "disasters_array">>,
          "rate" :> "nb_rate", Obj("nb_rate")) >>
Cell08 ==
    << St(8, 268, "observed", <<"Poisson", "rate", "disasters_array">>,
          "disasters" :> "nb_disasters", Obj("nb_disasters")) >>
Cell09 == << St(9, 280, "inspect", <<"disasters">>, NoBind, Attr("disasters", "logp")) >>
Cell10 ==
    << St(10, 338, "inspect", <<"switchpoint">>, NoBind, Attr("switchpoint", "parents")) >>
Cell11 ==
    << St(11, 358, "inspect", <<"disasters">>, NoBind, Attr("disasters", "parents")) >>
Cell12 == << St(12, 369, "inspect", <<"rate">>, NoBind, Attr("rate", "parents")) >>
Cell13 == << St(13, 391, "inspect", <<"rate">>, NoBind, Attr("rate", "children")) >>
Cell14 == << St(14, 453, "inspect", <<"disasters">>, NoBind, Attr("disasters", "value")) >>
Cell15 ==
    << St(15, 472, "inspect", <<"switchpoint">>, NoBind, Attr("switchpoint", "value")) >>
Cell16 ==
    << St(16, 483, "inspect", <<"early_mean">>, NoBind, Attr("early_mean", "value")) >>
Cell17 ==
    << St(17, 494, "inspect", <<"late_mean">>, NoBind, Attr("late_mean", "value")) >>
Cell18 == << St(18, 515, "inspect", <<"rate">>, NoBind, Attr("rate", "value")) >>
Cell19 ==
    << St(19, 543, "inspect", <<"switchpoint">>, NoBind, Attr("switchpoint", "logp")) >>
Cell20 == << St(20, 554, "inspect", <<"disasters">>, NoBind, Attr("disasters", "logp")) >>
Cell21 ==
    << St(21, 565, "inspect", <<"early_mean">>, NoBind, Attr("early_mean", "logp")) >>
Cell22 ==
    << St(22, 576, "inspect", <<"late_mean">>, NoBind, Attr("late_mean", "logp")) >>
Cell23 ==
    << St(23, 639, "import", <<>>, Lib({"disaster_model"}), NoArg),
       St(23, 640, "mcmc", <<"MCMC", "disaster_model">>, "M" :> "M_dis",
          [model |-> "M_dis"]) >>
Cell24 == << St(24, 651, "inspect", <<"M">>, NoBind, Attr("M", "repr")) >>
Cell25 == << St(25, 662, "inspect", <<"M">>, NoBind, Attr("M", "late_mean")) >>
Cell26 ==
    << St(26, 682, "sample", <<"M">>, NoBind,
          [name |-> "M", iter |-> DisIter, burn |-> DisBurn, thin |-> DefaultThin]) >>
Cell27 ==
    << St(27, 704, "trace", <<"M">>, NoBind,
          [name |-> "M", var |-> "early_mean", start |-> SliceStart]) >>
Cell28 == << St(28, 732, "results", <<"plt", "M">>, NoBind, Attr("M", "hist")) >>
Cell29 == << St(29, 754, "results", <<"Matplot", "M">>, NoBind, Attr("M", "plot")) >>
Cell30 == << St(30, 779, "results", <<"M">>, NoBind, Attr("M", "summary")) >>
Cell31 == << St(31, 843, "bind", <<"np">>, Data({"x"}), NoArg) >>
Cell32 ==
    << St(32, 867, "bind", <<"np", "x">>, Data({"masked_values"}), NoArg),
       St(32, 868, "inspect", <<"masked_values">>, NoBind,
          Attr("masked_values", "repr")) >>
Cell33 ==
    << St(33, 890, "observed", <<"Poisson", "rate", "masked_values">>,
          "disasters" :> "nb_disasters2", Obj("nb_disasters2")) >>
Cell34 == << St(34, 918, "bind", <<>>, Lib({"missing_data_model"}), NoArg) >>
Cell35 ==
    << St(35, 962, "mcmc_missing",
          <<"MCMC", "missing_data_model", "DiscreteUniform", "Exponential",
            "deterministic", "np", "disasters_array", "x", "Poisson">>,
          "M_missing" :> "M_missing", [model |-> "M_missing"]),
       St(35, 963, "sample", <<"M_missing">>, NoBind,
          [name |-> "M_missing", iter |-> MissIter, burn |-> DefaultBurn,
           thin |-> DefaultThin]) >>
Cell36 ==
    << St(36, 974, "inspect", <<"M_missing">>, NoBind, Attr("M_missing", "stochastics")) >>
Cell37 ==
    << St(37, 985, "results", <<"Matplot", "M_missing">>, NoBind,
          Attr("M_missing", "summary_plot")) >>
Cell38 == << St(38, 1009, "step_method_dict", <<"M">>, NoBind, Attr("M", "step_method_dict")) >>
Cell39 ==
    << St(39, 1033, "import", <<>>, Lib({"Metropolis"}), NoArg),
       St(39, 1034, "use_step_method", <<"M", "Metropolis", "disaster_model">>, NoBind,
          [name |-> "M", cls |-> "Metropolis", var |-> "dm_late_mean",
           proposal_sd |-> proposal_sd]) >>

\* the notebook with the cell of early_mean and late_mean before the cell
\* that imports Exponential
Prog_cell6_first ==
    Cell01 \o Cell02 \o Cell03 \o Cell04 \o Cell06 \o Cell05 \o Cell07 \o Cell08
    \o Cell09 \o Cell10 \o Cell11 \o Cell12 \o Cell13 \o Cell14 \o Cell15 \o Cell16
    \o Cell17 \o Cell18 \o Cell19 \o Cell20 \o Cell21 \o Cell22 \o Cell23 \o Cell24
    \o Cell25 \o Cell26 \o Cell27 \o Cell28 \o Cell29 \o Cell30 \o Cell31 \o Cell32
    \o Cell33 \o Cell34 \o Cell35 \o Cell36 \o Cell37 \o Cell38 \o Cell39

\* the notebook with Matplot.plot(M) before M.sample
Prog_plot_first ==
    Cell01 \o Cell02 \o Cell03 \o Cell04 \o Cell05 \o Cell06 \o Cell07 \o Cell08
    \o Cell09 \o Cell10 \o Cell11 \o Cell12 \o Cell13 \o Cell14 \o Cell15 \o Cell16
    \o Cell17 \o Cell18 \o Cell19 \o Cell20 \o Cell21 \o Cell22 \o Cell23 \o Cell24
    \o Cell25 \o Cell29 \o Cell26 \o Cell27 \o Cell28 \o Cell30 \o Cell31 \o Cell32
    \o Cell33 \o Cell34 \o Cell35 \o Cell36 \o Cell37 \o Cell38 \o Cell39

\* the cells in the order the notebook holds them
Prog ==
    Cell01 \o Cell02 \o Cell03 \o Cell04 \o Cell05 \o Cell06 \o Cell07 \o Cell08
    \o Cell09 \o Cell10 \o Cell11 \o Cell12 \o Cell13 \o Cell14 \o Cell15 \o Cell16
    \o Cell17 \o Cell18 \o Cell19 \o Cell20 \o Cell21 \o Cell22 \o Cell23 \o Cell24
    \o Cell25 \o Cell26 \o Cell27 \o Cell28 \o Cell29 \o Cell30 \o Cell31 \o Cell32
    \o Cell33 \o Cell34 \o Cell35 \o Cell36 \o Cell37 \o Cell38 \o Cell39

Halted == Len(Prog) + 1

(***************************************************************************)
(* The session.                                                            *)
(***************************************************************************)
IdleApp == [s |-> 0, e |-> 1, l |-> 1, out |-> <<>>, done |-> FALSE]

SessionInit ==
    /\ pc = 1
    /\ env = Lib({})
    /\ nameError = {}
    /\ objs = {}
    /\ value = [o \in {} |-> 0]
    /\ arr = [o \in {} |-> <<>>]
    /\ mstatus = [m \in ModelIds |-> "none"]
    /\ run = NoRun
    /\ db = [m \in ModelIds |-> <<>>]
    /\ trace = [m \in ModelIds |-> <<>>]
    /\ forced = {}
    /\ out = [stmt |-> 0, v |-> <<>>]
    /\ requests = {}

Init == SessionInit /\ app = IdleApp

\* the global names a statement reads that no earlier statement bound
Unbound(s) == {s.reads[i] : i \in DOMAIN s.reads} \ DOMAIN env

\* the first unbound name the statement evaluates
FirstUnbound(s) ==
    s.reads[CHOOSE i \in DOMAIN s.reads :
               /\ s.reads[i] \notin DOMAIN env
               /\ \A j \in 1..(i - 1) : s.reads[j] \in DOMAIN env]

\* a read of an unbound name raises NameError, which names that one name, and
\* the run of the notebook stops
Raise(s) ==
    /\ nameError' = {FirstUnbound(s)}
    /\ pc' = Halted
    /\ UNCHANGED <<env, objs, value, arr, mstatus, run, db, trace, forced,
                   out, requests>>

\* the statement returns: its names are bound and the next statement is up
Advance(s) ==
    /\ pc' = pc + 1
    /\ env' = s.binds @@ env
    /\ UNCHANGED nameError

\* the statement at pc, when it is an `op`, runs as A unless it raises
Step(op, A) ==
    /\ pc \in DOMAIN Prog
    /\ Prog[pc].op = op
    /\ run.model = "none"
    /\ UNCHANGED app
    /\ IF Unbound(Prog[pc]) # {} THEN Raise(Prog[pc]) ELSE A

\* the model a name stands for: the MCMC object itself, or the one holding it
ModelOf(d) ==
    IF d \in ModelIds THEN d ELSE CHOOSE m \in ModelIds : d \in ModelVars(m)

\* import ... / from ... import ...
Import ==
    Step("import",
         /\ Advance(Prog[pc])
         /\ UNCHANGED <<objs, value, arr, mstatus, run, db, trace, forced,
                        out, requests>>)

\* name = <data>, def name(...)
Bind ==
    Step("bind",
         /\ Advance(Prog[pc])
         /\ UNCHANGED <<objs, value, arr, mstatus, run, db, trace, forced,
                        out, requests>>)

\* from pymc.examples.disaster_model import disasters_array: the first import
\* runs the module, which declares the disaster model's variables
ImportDisasterModel ==
    Step("import_disaster_model",
         LET scalars == {"dm_switchpoint", "dm_early_mean", "dm_late_mean"}
         IN  \E g \in Garbage :
             \E init \in {f \in [scalars -> SwitchSupport \cup MeanSupport] :
                            \A o \in scalars : f[o] \in InitValues(o)} :
                /\ Advance(Prog[pc])
                /\ objs' = objs \cup ModelVars("M_dis")
                /\ value' = init @@ value
                /\ arr' = ("dm_rate" :> RateValue("dm_rate", init, g))
                          @@ ("dm_disasters" :> Filled("dm_disasters")) @@ arr
                /\ UNCHANGED <<mstatus, run, db, trace, forced, out,
                               requests>>)

\* name = Normal(...), DiscreteUniform(...), Exponential(...)
NewStochastic ==
    Step("stochastic",
         \E v \in InitValues(Prog[pc].a.obj) :
            /\ Advance(Prog[pc])
            /\ objs' = objs \cup {Prog[pc].a.obj}
            /\ value' = (Prog[pc].a.obj :> v) @@ value
            /\ UNCHANGED <<arr, mstatus, run, db, trace, forced, out,
                           requests>>)

\* @deterministic def rate(...), lam = Lambda(...)
NewDeterministic ==
    Step("deterministic",
         \E g \in Garbage :
            LET o == Prog[pc].a.obj
            IN  /\ Advance(Prog[pc])
                /\ objs' = objs \cup {o}
                /\ arr' = IF o \in Rates THEN (o :> RateValue(o, value, g)) @@ arr
                          ELSE arr
                /\ UNCHANGED <<value, mstatus, run, db, trace, forced, out,
                               requests>>)

\* name = Poisson(..., value=..., observed=True), @observed def survival(...)
NewObserved ==
    Step("observed",
         LET o == Prog[pc].a.obj
         IN  /\ Advance(Prog[pc])
             /\ objs' = objs \cup {o}
             /\ arr' = IF o \in DataVars THEN (o :> Filled(o)) @@ arr ELSE arr
             /\ UNCHANGED <<value, mstatus, run, db, trace, forced, out,
                            requests>>)

\* M = MCMC(...)
NewMCMC ==
    Step("mcmc",
         /\ Advance(Prog[pc])
         /\ mstatus' = [mstatus EXCEPT ![Prog[pc].a.model] = "built"]
         /\ UNCHANGED <<objs, value, arr, run, db, trace, forced, out,
                        requests>>)

\* M_missing = MCMC(missing_data_model()): the call declares the model's
\* variables, none with a value of its own, and hands them to MCMC
NewMissingModel ==
    Step("mcmc_missing",
         LET scalars == {"mm_switch", "mm_early_mean", "mm_late_mean"}
         IN  \E g \in Garbage :
             \E init \in {f \in [scalars -> SwitchSupport \cup MeanSupport] :
                            \A o \in scalars : f[o] \in InitValues(o)} :
                /\ Advance(Prog[pc])
                /\ objs' = objs \cup ModelVars("M_missing")
                /\ value' = init @@ value
                /\ arr' = ("mm_rate" :> RateValue("mm_rate", init, g))
                          @@ ("mm_disasters" :> Filled("mm_disasters")) @@ arr
                /\ mstatus' = [mstatus EXCEPT !["M_missing"] = "built"]
                /\ UNCHANGED <<run, db, trace, forced, out, requests>>)

(***************************************************************************)
(* The sampler: M.sample(iter, burn, thin).                                *)
(***************************************************************************)
\* the stochastics of model m the sampler steps: those not observed
Unobserved(m) == ModelVars(m) \cap DOMAIN value

\* the variables of model m that a step method steps: its unobserved
\* stochastics and its data stochastics that have missing elements
Steppable(m) ==
    Unobserved(m) \cup {o \in ModelVars(m) \cap DataVars : Missing(o) # {}}

\* iteration i (counted from 0) is recorded in the trace
Tally(i, burn, thin) == i % thin = 0 /\ i >= burn

\* one step on data stochastic o, whose value is a: only the elements that are
\* missing take a new value
StepData(o, a, fill) ==
    [i \in 1..Len(a) |-> IF i \in Missing(o) THEN fill[i] ELSE a[i]]

\* the value of deterministic r after a step took its parents from old to new
Recompute(r, old, new, g) == RateValue(r, new, g)

\* M.sample(...) is called: a new chain starts
SampleStart ==
    Step("sample",
         LET a == Prog[pc].a
             m == env[a.name]
         IN  /\ run' = [model |-> m, iter |-> a.iter, burn |-> a.burn,
                        thin |-> a.thin, i |-> 0, todo |-> Steppable(m)]
             /\ mstatus' = [mstatus EXCEPT ![m] = "sampling"]
             /\ db' = [db EXCEPT ![m] = <<>>]
             /\ trace' = [trace EXCEPT ![m] = <<>>]
             /\ UNCHANGED <<pc, env, nameError, objs, value, arr, forced, out,
                            requests>>)

\* within an iteration, one step method takes its step: its stochastic keeps
\* its value (the proposal is rejected) or takes a new one from its support,
\* and the deterministics of the model follow their parents
SampleStep ==
    /\ run.model # "none"
    /\ run.i < run.iter
    /\ \E o \in run.todo :
          /\ IF o \in DOMAIN value
             THEN \E v \in Support(o) \cup {value[o]} :
                     LET new == [value EXCEPT ![o] = v]
                     IN  /\ value' = new
                         /\ arr' \in {[r \in DOMAIN arr |->
                                         IF r \in ModelVars(run.model) \cap Rates
                                         THEN Recompute(r, value, new, g)
                                         ELSE arr[r]] : g \in Garbage}
             ELSE \E fill \in [Missing(o) -> CountSupport] :
                     /\ arr' = [arr EXCEPT ![o] = StepData(o, arr[o], fill)]
                     /\ UNCHANGED value
          /\ run' = [run EXCEPT !.todo = @ \ {o}]
    /\ UNCHANGED <<pc, env, nameError, objs, mstatus, db, trace, forced, out,
                   requests, app>>

\* the end of an iteration: every step method has stepped and the sample is
\* tallied
SampleTally ==
    /\ run.model # "none"
    /\ run.i < run.iter
    /\ run.todo = {}
    /\ LET m == run.model
           keep == Tally(run.i, run.burn, run.thin)
       IN  /\ db' = [db EXCEPT ![m] = IF keep THEN Append(@, run.i) ELSE @]
           /\ trace' = [trace EXCEPT ![m] =
                          IF keep /\ Traced(m) # "none"
                          THEN Append(@, value[Traced(m)]) ELSE @]
           /\ run' = [run EXCEPT !.i = @ + 1, !.todo = Steppable(m)]
    /\ UNCHANGED <<pc, env, nameError, objs, value, arr, mstatus, forced, out,
                   requests, app>>

\* the loop is over: sample returns
SampleReturn ==
    /\ run.model # "none"
    /\ run.i = run.iter
    /\ mstatus' = [mstatus EXCEPT ![run.model] = "sampled"]
    /\ run' = NoRun
    /\ pc' = pc + 1
    /\ UNCHANGED <<env, nameError, objs, value, arr, db, trace, forced, out,
                   requests, app>>

(***************************************************************************)
(* Cells that look at the model or its results.                            *)
(***************************************************************************)
\* what a cell shows for attribute at of the thing d denotes
Shown(d, at) ==
    IF at # "value" THEN <<>>
    ELSE IF d \in DOMAIN value THEN <<value[d]>>
    ELSE IF d \in DOMAIN arr THEN arr[d]
    ELSE <<>>

\* an inspection that sets every stochastic back to an initial value
Inspect_resets ==
    Step("inspect",
         /\ Advance(Prog[pc])
         /\ out' = [stmt |-> pc, v |-> Shown(env[Prog[pc].a.name], Prog[pc].a.attr)]
         /\ value' = [o \in DOMAIN value |-> CHOOSE v \in InitValues(o) : TRUE]
         /\ UNCHANGED <<objs, arr, mstatus, run, db, trace, forced, requests>>)

\* a cell that evaluates name.attribute (value, logp, parents, children, ...)
Inspect ==
    Step("inspect",
         /\ Advance(Prog[pc])
         /\ out' = [stmt |-> pc, v |-> Shown(env[Prog[pc].a.name], Prog[pc].a.attr)]
         /\ UNCHANGED <<objs, value, arr, mstatus, run, db, trace, forced,
                        requests>>)

\* M.trace(name)[start:]
Trace ==
    Step("trace",
         LET a == Prog[pc].a
             m == env[a.name]
         IN  /\ Advance(Prog[pc])
             /\ out' = [stmt |-> pc, v |-> SliceFrom(trace[m], a.start)]
             /\ requests' = requests \cup
                    {[model |-> m, stmt |-> pc, status |-> mstatus[m]]}
             /\ UNCHANGED <<objs, value, arr, mstatus, run, db, trace, forced>>)

\* plt.hist(M.trace(...)[:]), Matplot.plot, summary, Matplot.summary_plot
Results ==
    Step("results",
         LET m == ModelOf(env[Prog[pc].a.name])
         IN  /\ Advance(Prog[pc])
             /\ requests' = requests \cup
                    {[model |-> m, stmt |-> pc, status |-> mstatus[m]]}
             /\ UNCHANGED <<objs, value, arr, mstatus, run, db, trace, forced, out>>)

\* M.step_method_dict
StepMethodDict ==
    Step("step_method_dict",
         /\ Advance(Prog[pc])
         /\ UNCHANGED <<objs, value, arr, mstatus, run, db, trace, forced,
                        out, requests>>)

\* M.use_step_method(Metropolis, late_mean, proposal_sd=2.)
UseStepMethod ==
    Step("use_step_method",
         LET a == Prog[pc].a
         IN  /\ Advance(Prog[pc])
             /\ forced' = forced \cup
                    {[model |-> env[a.name], var |-> a.var, cls |-> a.cls,
                      proposal_sd |-> a.proposal_sd]}
             /\ UNCHANGED <<objs, value, arr, mstatus, run, db, trace, out,
                            requests>>)

Next ==
    \/ Import
    \/ Bind
    \/ ImportDisasterModel
    \/ NewStochastic
    \/ NewDeterministic
    \/ NewObserved
    \/ NewMCMC
    \/ NewMissingModel
    \/ SampleStart
    \/ SampleStep
    \/ SampleTally
    \/ SampleReturn
    \/ Inspect
    \/ Trace
    \/ Results
    \/ StepMethodDict
    \/ UseStepMethod

Spec == Init /\ [][Next]_vars

(***************************************************************************)
(* The function rate on its own: its inputs are drawn, then it is applied. *)
(***************************************************************************)
RateInputs == (switchpoint_lower - SMargin)..(switchpoint_upper + SMargin)

RateInit ==
    /\ SessionInit
    /\ app \in [s : RateInputs, e : MeanSupport, l : MeanSupport, out : {<<>>},
                done : {FALSE}]

ApplyRate ==
    /\ ~app.done
    /\ \E g \in Garbage :
          app' = [app EXCEPT !.out = rate(app.s, app.e, app.l, g), !.done = TRUE]
    /\ UNCHANGED sessionVars

RateNext == ApplyRate

RateSpec == RateInit /\ [][RateNext]_vars

(***************************************************************************)
(* Properties.                                                             *)
(***************************************************************************)
\* the current value of a variable, whatever its shape
ValueOf(o) ==
    IF o \in DOMAIN value THEN <<value[o]>>
    ELSE IF o \in DOMAIN arr THEN arr[o]
    ELSE <<>>

\* C1: for every switchpoint s with 0 <= s <= 110 and all e, l, rate returns
\* an array as long as disasters_array whose first s elements are e and whose
\* remaining elements are l.
C1_RateSplitsAtSwitchpoint ==
    (app.done /\ switchpoint_lower <= app.s /\ app.s <= switchpoint_upper) =>
        /\ Len(app.out) = Len(disasters_array)
        /\ \A i \in 1..Len(app.out) :
              app.out[i] = IF i <= app.s THEN app.e ELSE app.l

C1_Witness ==
    /\ app.done
    /\ app.s = 50
    /\ app.e # app.l
    /\ app.out[50] = app.e
    /\ app.out[51] = app.l

\* C4: a step changes the value of a variable only if it is an iteration of a
\* sample call on a model that holds the variable.
C4_OnlySampleChangesValues ==
    [][\A o \in objs :
          \/ ValueOf(o)' = ValueOf(o)
          \/ run.model # "none" /\ run.i < run.iter /\ o \in ModelVars(run.model)]_vars

C4_Witness ==
    /\ pc = Halted
    /\ arr["mm_disasters"][40] # Filled("mm_disasters")[40]
    /\ value["sv_beta1"] # DeclaredValue("sv_beta1")

\* C5: the survival fit runs its iterations, discards the first half as
\* burn-in and keeps every second of the remaining samples only.
C5_SurvivalThinnedByTwo ==
    mstatus["M_surv"] = "sampled" =>
        /\ 2 * SurvBurn = SurvIter
        /\ db["M_surv"] =
              [k \in 1..((SurvIter - SurvBurn) \div 2) |-> SurvBurn + 2 * (k - 1)]

\* C7: in the missing-data model the two elements of disasters where x holds
\* None are unknown (they hold estimated counts); every other element equals
\* the count in x in every state.
C7_OnlyMissingElementsVary ==
    "mm_disasters" \in DOMAIN arr =>
        /\ Cardinality({i \in DOMAIN x : x[i] = None}) = 2
        /\ \A i \in DOMAIN x :
              IF x[i] = None THEN arr["mm_disasters"][i] # None
              ELSE arr["mm_disasters"][i] = x[i]

C7_Witness ==
    /\ run.model = "M_missing"
    /\ run.i > 0
    /\ arr["mm_disasters"][40] # MeanOfX
    /\ arr["mm_disasters"][84] = MeanOfX
    /\ x[40] = None

\* C8: while M samples, late_mean is handled by the Metropolis step method
\* with proposal standard deviation 2 that use_step_method asked for.
C8_StepMethodSetBeforeSample ==
    run.model = "M_dis" =>
        [model |-> "M_dis", var |-> "dm_late_mean", cls |-> "Metropolis",
         proposal_sd |-> proposal_sd] \in forced

\* C9: no cell reads a name that is not bound: no NameError is raised and the
\* statement that is up reads bound names only.
C9_NoUnboundRead ==
    /\ nameError = {}
    /\ (pc \in DOMAIN Prog /\ run.model = "none") => Unbound(Prog[pc]) = {}

C9_Witness ==
    /\ pc = Halted
    /\ nameError = {}
    /\ {"M", "M_missing", "Metropolis", "disasters_array", "x"} \subseteq DOMAIN env

\* C10: results of a model are asked for only after its sample call has
\* returned, and a model samples only after all its variables are declared.
C10_DeclareSampleThenResults ==
    /\ \A r \in requests : r.status = "sampled"
    /\ \A m \in ModelIds :
          mstatus[m] \in {"sampling", "sampled"} => ModelVars(m) \subseteq objs

C10_Witness ==
    /\ pc = Halted
    /\ {r.model : r \in requests} = ModelIds

\* the statement that declares stochastic o
DeclStmt(o) ==
    CHOOSE i \in DOMAIN Prog : Prog[i].op = "stochastic" /\ Prog[i].a.obj = o

\* the cell that shows name.value
ValueStmt(n) ==
    CHOOSE i \in DOMAIN Prog :
        Prog[i].op = "inspect" /\ Prog[i].a = Attr(n, "value")

\* C11: the values of switchpoint, early_mean and late_mean shown before any
\* fit are random initial values: the declaration of each can leave it with
\* one value or with another, so two runs can show different values.
C11_InitialValuesRandom ==
    \A o \in {"nb_switchpoint", "nb_early_mean", "nb_late_mean"} :
        pc = DeclStmt(o) =>
            \E a, b \in Support(o) :
                /\ a # b
                /\ ENABLED (NewStochastic /\ value'[o] = a)
                /\ ENABLED (NewStochastic /\ value'[o] = b)

\* what the code does instead: every run shows the values the declarations
\* pass, 50, 0.1 and 1
C11_ShownValuesDeclared ==
    /\ out.stmt = ValueStmt("switchpoint") => out.v = <<50>>
    /\ out.stmt = ValueStmt("early_mean") => out.v = <<1>>
    /\ out.stmt = ValueStmt("late_mean") => out.v = <<10>>

\* the placeholder the text after missing_data_model names for missing data
placeholder == -999

\* C12: missing_data_model marks missing observations with -999: an element
\* of its observation array is missing exactly when it equals -999, and the
\* mask is the one built earlier in the notebook from None.
C12_MissingIsPlaceholder ==
    "mm_disasters" \in DOMAIN arr =>
        /\ \A i \in DOMAIN x :
              i \in Missing("mm_disasters") <=> x[i] = placeholder
        /\ Missing("mm_disasters") = Missing("nb_disasters2")

\* what the code does instead: both masks are built from None
C12_MissingIsNone ==
    "mm_disasters" \in DOMAIN arr =>
        /\ \A i \in DOMAIN x : i \in Missing("mm_disasters") <=> x[i] = None
        /\ Missing("mm_disasters") = Missing("nb_disasters2")

(***************************************************************************)
(* The survival model's failure indicator and log-likelihood, applied to   *)
(* data sets of NObs observations.  Rates (2.0 and 3.0) and times are      *)
(* whole numbers; logarithms and the log-likelihood are in hundredths.     *)
(***************************************************************************)
NObs == 3
CensoredValues == {0, 1}
LamValues == {2, 3}
TimeValues == {1, 2}

\* np.log at the rates drawn, rounded to hundredths: log 2.0 = 0.69,
\* log 3.0 = 1.10
np_log(v) == CASE v = 2 -> 69 [] v = 3 -> 110

\* an indicator that copies the censoring indicator
failure_same(censored) == censored

\* failure = (data.censored==0).astype(int)
failure(censored) ==
    [i \in DOMAIN censored |-> IF censored[i] = 0 THEN 1 ELSE 0]

\* sum(f*np.log(lam) - lam*value)
survival(val, lam, f) ==
    SumOver([i \in DOMAIN val |-> f[i] * np_log(lam[i]) - 100 * lam[i] * val[i]],
            DOMAIN val)

SurvivalInit ==
    /\ SessionInit
    /\ app \in [censored : [1..NObs -> CensoredValues],
                t : [1..NObs -> TimeValues],
                lam : [1..NObs -> LamValues],
                failure : {<<>>}, logp : {0}, stage : {"data"}]

ComputeFailure ==
    /\ app.stage = "data"
    /\ app' = [app EXCEPT !.failure = failure(app.censored), !.stage = "failure"]
    /\ UNCHANGED sessionVars

ComputeSurvival ==
    /\ app.stage = "failure"
    /\ app' = [app EXCEPT !.logp = survival(app.t, app.lam, app.failure),
                          !.stage = "logp"]
    /\ UNCHANGED sessionVars

SurvivalNext == ComputeFailure \/ ComputeSurvival

SurvivalSpec == SurvivalInit /\ [][SurvivalNext]_vars

\* C13: failure is the complement of the censoring indicator, 1 exactly
\* when censored is 0 and 0 otherwise, so the log-likelihood has one log(lam)
\* term for each failure and none for a censored observation.
C13_FailureComplementsCensoring ==
    /\ app.stage # "data" =>
          \A i \in 1..NObs :
              /\ app.failure[i] \in {0, 1}
              /\ app.failure[i] = 1 <=> app.censored[i] = 0
              /\ app.failure[i] + app.censored[i] = 1
    /\ app.stage = "logp" =>
          app.logp =
              SumOver([i \in 1..NObs |-> np_log(app.lam[i])],
                      {i \in 1..NObs : app.censored[i] = 0})
              - SumOver([i \in 1..NObs |-> 100 * app.lam[i] * app.t[i]], 1..NObs)

C13_Witness ==
    /\ app.stage = "logp"
    /\ \E i, j \in 1..NObs : app.censored[i] = 1 /\ app.censored[j] = 0
====
